---- MODULE Spec2Model ----
(***************************************************************************)
(* A model of src/src/crawler.ts: the abstract class Crawler.              *)
(*                                                                         *)
(*   SpecRun           the lifecycle method run()                          *)
(*   SpecOps           the pass-through operations                         *)
(*   SpecInput         readUserInput                                       *)
(*   SpecDownload      waitForDownload (FairSpecDownload: with fairness)   *)
(***************************************************************************)
EXTENDS Integers, Sequences, FiniteSets, TLC

(***************************************************************************)
(* Bounds of the model.                                                    *)
(***************************************************************************)
\* run() is invoked at most MaxRuns times on the same object and file system
MaxRuns == 3
\* crawl() performs at most MaxCrawlOps page interactions
MaxCrawlOps == 2
\* the page shows one of the markups 0..MaxMarkup
MaxMarkup == 1

VARIABLES
    \* ---- fields of the object (crawler.ts:10-15)
    page,        \* this.page: [kind: "uninit" | "undefined" | "tab", run: the run whose browser owns the tab]
    tmpDir,      \* this.tmpDir: "" until run() sets it
    errorDump,   \* this.errorDump: "" or "error.html"
    \* ---- run(): position, locals and the world it acts on
    rpc,         \* position in run()
    runs,        \* number of invocations of run() so far
    browser,     \* the browser of the current invocation: "none" | "open" | "closed"
    fsTemp,      \* whether the staging directory exists in the file system
    dirMade,     \* whether the current invocation created the staging directory
    dlRedirect,  \* the run whose control session completed Page.setDownloadBehavior (0: none)
    crawlStarted,\* whether the current invocation called crawl()
    crawlOps,    \* interactions crawl() made in the current invocation
    obsPage,     \* this.page as the last interaction inside crawl() saw it
    obsTmp,      \* this.tmpDir as the last interaction inside crawl() saw it
    markup,      \* the markup the page shows now
    failMarkup,  \* the markup the page showed when crawl() raised (-1: it did not)
    content,     \* the value page.content() delivered in the catch block (-1: none)
    dumpFile,    \* contents of the file errorDump names (-1: not written)
    caught,      \* the error crawl() raised in the current invocation ("none": it did not)
    outcome      \* what run() delivered to its caller: "none" | "ok" | the error raised

runVars == <<page, tmpDir, errorDump, rpc, runs, browser, fsTemp, dirMade, dlRedirect,
             crawlStarted, crawlOps, obsPage, obsTmp, markup, failMarkup, content,
             dumpFile, caught, outcome>>

VARIABLES
    \* ---- one invocation of a pass-through operation
    op,          \* the operation running: "none" or its name
    opc,         \* position inside it
    events,      \* the calls it made on the page so far, in order
    result,      \* what it delivered: "none" | "ok" | "true" | "false" | "handle" | "raised"
    appeared,    \* whether the selector of the last selector wait appeared in time
    ncalls       \* operations invoked so far

opVars == <<op, opc, events, result, appeared, ncalls>>

VARIABLES
    \* ---- one invocation of readUserInput
    pstate,      \* the returned promise: "none" | "pending" | "resolved"
    pvalue,      \* the value it resolved with
    password,    \* the password argument
    line,        \* the characters typed since the prompt
    echoed,      \* what _writeToOutput wrote for them
    rlOpen,      \* whether the readline interface is open
    timerFired,  \* whether the setTimeout callback ran
    timeoutLogs, \* console.log("timeout") calls
    first,       \* the callback that ran first: "none" | "answer" | "timer"
    answer       \* the answer the question callback received

inVars == <<pstate, pvalue, password, line, echoed, rlOpen, timerFired, timeoutLogs, first, answer>>

VARIABLES
    \* ---- waitForDownload and the two directories it works on
    staging,     \* the entries of this.tmpDir, in the order readdirSync lists them
    dest,        \* the files of this.downloadDir
    destExists,  \* whether this.downloadDir exists (as a directory)
    wpc,         \* position in waitForDownload
    timeout,     \* its argument, in ms
    elapsed,     \* its local elapsed
    downloadFile,\* its local downloadFile (<<>>: undefined)
    reads,       \* readdirSync calls of the current invocation
    stopMissed,  \* whether the loop went on after reading a directory that held a completed file
    dlResult,    \* what the current invocation returned (<<>>: undefined)
    dlCalls,     \* invocations so far
    copied,      \* the file the current invocation copied (<<>>: none)
    browserDir,  \* the staging directory as the browser's downloads made it
    retDir,      \* browserDir when the latest invocation returned
    prevResult,  \* what the invocation before the current one returned
    prevDir      \* browserDir when the invocation before the current one returned

dlVars == <<staging, dest, destExists, wpc, timeout, elapsed, downloadFile, reads, stopMissed,
            dlResult, dlCalls, copied, browserDir, retDir, prevResult, prevDir>>

vars == <<runVars, opVars, inVars, dlVars>>

otherThanRun == <<opVars, inVars, dlVars>>
otherThanOps == <<runVars, inVars, dlVars>>
otherThanInput == <<runVars, opVars, dlVars>>
otherThanDownload == <<runVars, opVars, inVars>>

Markups == 0..MaxMarkup

Uninit == [kind |-> "uninit", run |-> 0]
Undefined == [kind |-> "undefined", run |-> 0]
Tab(n) == [kind |-> "tab", run |-> n]

(***************************************************************************)
(* The constructor: debug decides errorDump; page and tmpDir keep their    *)
(* field initialisers.                                                     *)
(***************************************************************************)
InitRun ==
    /\ tmpDir = ""
    /\ errorDump \in {"", "error.html"}
    /\ rpc = "idle"
    /\ runs = 0
    /\ browser = "none"
    /\ fsTemp = FALSE
    /\ dirMade = FALSE
    /\ dlRedirect = 0
    /\ crawlStarted = FALSE
    /\ crawlOps = 0
    /\ obsPage = Uninit
    /\ obsTmp = ""
    /\ markup = 0
    /\ failMarkup = -1
    /\ content = -1
    /\ dumpFile = -1
    /\ caught = "none"
    /\ outcome = "none"

\* run() ends by raising err (or returning, err = "ok") from position rpc
Finish(err) ==
    /\ rpc' = "returned"
    /\ outcome' = err

\* a caller invokes run()
RunCall ==
    /\ rpc \in {"idle", "returned"}
    /\ runs < MaxRuns
    /\ rpc' = "launch"
    /\ runs' = runs + 1
    /\ browser' = "none"
    /\ dirMade' = FALSE
    /\ crawlStarted' = FALSE
    /\ crawlOps' = 0
    /\ failMarkup' = -1
    /\ content' = -1
    /\ caught' = "none"
    /\ outcome' = "none"
    /\ UNCHANGED <<page, tmpDir, errorDump, fsTemp, dlRedirect, obsPage, obsTmp, markup, dumpFile>>
    /\ UNCHANGED otherThanRun

\* const browser = await puppeteer.launch(...)
Launch ==
    /\ rpc = "launch"
    /\ \/ /\ browser' = "open"
          /\ markup' = 0
          /\ rpc' = "pages"
          /\ UNCHANGED outcome
       \/ /\ Finish("LaunchError")
          /\ UNCHANGED <<browser, markup>>
    /\ UNCHANGED <<page, tmpDir, errorDump, runs, fsTemp, dirMade, dlRedirect, crawlStarted,
                   crawlOps, obsPage, obsTmp, failMarkup, content, dumpFile, caught>>
    /\ UNCHANGED otherThanRun

\* this.page = (await browser.pages())[0]; this.tmpDir = path.resolve(__dirname, 'temp')
ListPages ==
    /\ rpc = "pages"
    /\ \/ /\ \E p \in {Tab(runs), Undefined} : page' = p
          /\ tmpDir' = "temp"
          /\ rpc' = "mkdir"
          /\ UNCHANGED outcome
       \/ /\ Finish("PagesError")
          /\ UNCHANGED <<page, tmpDir>>
    /\ UNCHANGED <<errorDump, runs, browser, fsTemp, dirMade, dlRedirect, crawlStarted,
                   crawlOps, obsPage, obsTmp, markup, failMarkup, content, dumpFile, caught>>
    /\ UNCHANGED otherThanRun

\* fs.mkdirSync(this.tmpDir): not recursive, so it throws EEXIST on a directory that exists
MakeTmpDir ==
    /\ rpc = "mkdir"
    /\ IF fsTemp
         THEN /\ Finish("EEXIST")
              /\ UNCHANGED <<fsTemp, dirMade>>
         ELSE /\ fsTemp' = TRUE
              /\ dirMade' = TRUE
              /\ rpc' = "cdp"
              /\ UNCHANGED outcome
    /\ UNCHANGED <<page, tmpDir, errorDump, runs, browser, dlRedirect, crawlStarted,
                   crawlOps, obsPage, obsTmp, markup, failMarkup, content, dumpFile, caught>>
    /\ UNCHANGED otherThanRun

\* const client = await this.page.target().createCDPSession()
CreateSession ==
    /\ rpc = "cdp"
    /\ IF page.kind # "tab"
         THEN Finish("TypeError")
         ELSE \/ rpc' = "send" /\ UNCHANGED outcome
              \/ Finish("SessionError")
    /\ UNCHANGED <<page, tmpDir, errorDump, runs, browser, fsTemp, dirMade, dlRedirect,
                   crawlStarted, crawlOps, obsPage, obsTmp, markup, failMarkup, content,
                   dumpFile, caught>>
    /\ UNCHANGED otherThanRun

\* SetDownloadBehavior with a fault: the command is sent but not awaited
SetDownloadBehaviorNotAwaited ==
    /\ rpc = "send"
    /\ rpc' = "crawl"
    /\ UNCHANGED <<page, tmpDir, errorDump, runs, browser, fsTemp, dirMade, dlRedirect,
                   crawlStarted, crawlOps, obsPage, obsTmp, markup, failMarkup, content,
                   dumpFile, caught, outcome>>
    /\ UNCHANGED otherThanRun

\* await client.send('Page.setDownloadBehavior', {behavior: 'allow', downloadPath: _tempDir})
SetDownloadBehavior ==
    /\ rpc = "send"
    /\ \/ /\ dlRedirect' = runs
          /\ rpc' = "crawl"
          /\ UNCHANGED outcome
       \/ /\ Finish("SendError")
          /\ UNCHANGED dlRedirect
    /\ UNCHANGED <<page, tmpDir, errorDump, runs, browser, fsTemp, dirMade, crawlStarted,
                   crawlOps, obsPage, obsTmp, markup, failMarkup, content, dumpFile, caught>>
    /\ UNCHANGED otherThanRun

\* try { await this.crawl(); ...: crawl() is entered
CrawlStart ==
    /\ rpc = "crawl"
    /\ rpc' = "crawling"
    /\ crawlStarted' = TRUE
    /\ UNCHANGED <<page, tmpDir, errorDump, runs, browser, fsTemp, dirMade, dlRedirect,
                   crawlOps, obsPage, obsTmp, markup, failMarkup, content, dumpFile,
                   caught, outcome>>
    /\ UNCHANGED otherThanRun

\* inside crawl(): an interaction method reads this.page (and this.tmpDir) and the
\* page goes on to show some markup
CrawlInteract ==
    /\ rpc = "crawling"
    /\ crawlOps < MaxCrawlOps
    /\ crawlOps' = crawlOps + 1
    /\ obsPage' = page
    /\ obsTmp' = tmpDir
    /\ \E m \in Markups : markup' = m
    /\ UNCHANGED <<page, tmpDir, errorDump, rpc, runs, browser, fsTemp, dirMade, dlRedirect,
                   crawlStarted, failMarkup, content, dumpFile, caught, outcome>>
    /\ UNCHANGED otherThanRun

\* crawl() returns: the try block ends normally and the finally block runs
CrawlReturn ==
    /\ rpc = "crawling"
    /\ rpc' = "finally"
    /\ UNCHANGED <<page, tmpDir, errorDump, runs, browser, fsTemp, dirMade, dlRedirect,
                   crawlStarted, crawlOps, obsPage, obsTmp, markup, failMarkup, content,
                   dumpFile, caught, outcome>>
    /\ UNCHANGED otherThanRun

\* crawl() raises: catch (e) { if (this.errorDump) ... throw e }
CrawlThrow ==
    /\ rpc = "crawling"
    /\ caught' = "CrawlError"
    /\ failMarkup' = markup
    /\ rpc' = IF errorDump # "" THEN "content" ELSE "finally"
    /\ UNCHANGED <<page, tmpDir, errorDump, runs, browser, fsTemp, dirMade, dlRedirect,
                   crawlStarted, crawlOps, obsPage, obsTmp, markup, content, dumpFile,
                   outcome>>
    /\ UNCHANGED otherThanRun

\* await this.page.content(), the argument of writeFileSync, evaluated first; when it
\* rejects, its error leaves the catch block in place of e
ReadContent ==
    /\ rpc = "content"
    /\ \/ /\ content' = markup
          /\ rpc' = "write"
          /\ UNCHANGED caught
       \/ /\ caught' = "ContentError"
          /\ rpc' = "finally"
          /\ UNCHANGED content
    /\ UNCHANGED <<page, tmpDir, errorDump, runs, browser, fsTemp, dirMade, dlRedirect,
                   crawlStarted, crawlOps, obsPage, obsTmp, markup, failMarkup, dumpFile,
                   outcome>>
    /\ UNCHANGED otherThanRun

\* fs.writeFileSync(this.errorDump, <content>); throw e
WriteDump ==
    /\ rpc = "write"
    /\ \/ /\ dumpFile' = content
          /\ UNCHANGED caught
       \/ /\ caught' = "WriteError"
          /\ UNCHANGED dumpFile
    /\ rpc' = "finally"
    /\ UNCHANGED <<page, tmpDir, errorDump, runs, browser, fsTemp, dirMade, dlRedirect,
                   crawlStarted, crawlOps, obsPage, obsTmp, markup, failMarkup, content,
                   outcome>>
    /\ UNCHANGED otherThanRun

\* finally { await browser.close() }, then the pending error, if any, reaches the caller
CloseBrowser ==
    /\ rpc = "finally"
    /\ browser' = "closed"
    /\ Finish(IF caught = "none" THEN "ok" ELSE caught)
    /\ UNCHANGED <<page, tmpDir, errorDump, runs, fsTemp, dirMade, dlRedirect, crawlStarted,
                   crawlOps, obsPage, obsTmp, markup, failMarkup, content, dumpFile, caught>>
    /\ UNCHANGED otherThanRun

NextRun ==
    \/ RunCall
    \/ Launch
    \/ ListPages
    \/ MakeTmpDir
    \/ CreateSession
    \/ SetDownloadBehavior
    \/ CrawlStart
    \/ CrawlInteract
    \/ CrawlReturn
    \/ CrawlThrow
    \/ ReadContent
    \/ WriteDump
    \/ CloseBrowser

(***************************************************************************)
(* The pass-through operations goto, exists, click, type, waitForTimeout,  *)
(* waitForSelector and waitAndClick.  Each is called on the object as it   *)
(* is: before run() assigned this.page, or inside crawl() with the tab.    *)
(***************************************************************************)
\* how many operations a behaviour invokes
MaxCalls == 2
\* the fixed delay before an action
PreDelayMs == 1000
\* the timeout given to page.waitForSelector
SelectorTimeoutMs == 5000
\* the arguments of a direct waitForTimeout call are 0, 500, .. MaxDelayArg * 500
MaxDelayArg == 1

Ops == {"goto", "exists", "click", "type", "waitForTimeout", "waitForSelector", "waitAndClick"}

Ev(c, ms) == [call |-> c, ms |-> ms]

InitOps ==
    /\ op = "none"
    /\ opc = "idle"
    /\ events = <<>>
    /\ result = "none"
    /\ appeared = FALSE
    /\ ncalls = 0

\* HasPreDelay with a fault: type loses its delay
HasPreDelayNotType(o) == o \in {"exists", "click"}

\* the operations whose body starts with await this.waitForTimeout(1000)
HasPreDelay(o) == o \in {"exists", "click", "type"}

\* the operation ends, delivering r
Deliver(r) ==
    /\ result' = r
    /\ opc' = "done"

\* a caller invokes operation o
OpCall ==
    /\ opc \in {"idle", "done"}
    /\ ncalls < MaxCalls
    /\ \E o \in Ops :
         /\ op' = o
         /\ opc' = IF HasPreDelay(o) \/ o = "waitForTimeout" THEN "delay" ELSE "act"
    /\ events' = <<>>
    /\ result' = "none"
    /\ appeared' = FALSE
    /\ ncalls' = ncalls + 1
    /\ UNCHANGED otherThanOps

\* waitForTimeout(milliseconds): return await this.page.waitForTimeout(milliseconds);
\* on a page that is no tab the property access throws a TypeError
WaitForTimeoutStart ==
    /\ opc = "delay"
    /\ IF page.kind # "tab"
         THEN /\ Deliver("raised")
              /\ UNCHANGED events
         ELSE /\ \E ms \in IF op = "waitForTimeout"
                             THEN {500 * k : k \in 0..MaxDelayArg}
                             ELSE {PreDelayMs} :
                   events' = Append(events, Ev("page.waitForTimeout", ms))
              /\ opc' = "delaying"
              /\ UNCHANGED result
    /\ UNCHANGED <<op, appeared, ncalls>>
    /\ UNCHANGED otherThanOps

\* the page's delay resolves or rejects; nothing in the callers catches a rejection
WaitForTimeoutSettle ==
    /\ opc = "delaying"
    /\ \/ /\ events' = Append(events, Ev("page.waitForTimeout.resolved", events[Len(events)].ms))
          /\ IF op = "waitForTimeout"
               THEN Deliver("ok")
               ELSE opc' = "act" /\ UNCHANGED result
       \/ /\ Deliver("raised")
          /\ UNCHANGED events
    /\ UNCHANGED <<op, appeared, ncalls>>
    /\ UNCHANGED otherThanOps

\* goto: Promise.all([this.page.goto(url), this.page.waitForNavigation(...)])
Goto ==
    /\ op = "goto" /\ opc = "act"
    /\ IF page.kind # "tab"
         THEN /\ Deliver("raised")
              /\ UNCHANGED events
         ELSE /\ events' = events \o <<Ev("page.goto", 0), Ev("page.waitForNavigation", 0)>>
              /\ opc' = "awaiting"
              /\ UNCHANGED result
    /\ UNCHANGED <<op, appeared, ncalls>>
    /\ UNCHANGED otherThanOps

\* click: Promise.all([this.page.click(selector, options), this.page.waitForNavigation(...)])
Click ==
    /\ op = "click" /\ opc = "act"
    /\ events' = events \o <<Ev("page.click", 0), Ev("page.waitForNavigation", 0)>>
    /\ opc' = "awaiting"
    /\ UNCHANGED <<op, result, appeared, ncalls>>
    /\ UNCHANGED otherThanOps

\* type: return await this.page.type(selector, text, options)
Type ==
    /\ op = "type" /\ opc = "act"
    /\ events' = Append(events, Ev("page.type", 0))
    /\ opc' = "awaiting"
    /\ UNCHANGED <<op, result, appeared, ncalls>>
    /\ UNCHANGED otherThanOps

\* the awaited page calls of goto, click, type and waitAndClick resolve or reject
AwaitSettle ==
    /\ opc = "awaiting"
    /\ \E r \in {"ok", "raised"} : Deliver(r)
    /\ UNCHANGED <<op, events, appeared, ncalls>>
    /\ UNCHANGED otherThanOps

\* exists: try { await this.page.waitForSelector(selector, { timeout: 5000 }) ...
ExistsWait ==
    /\ op = "exists" /\ opc = "act"
    /\ events' = Append(events, Ev("page.waitForSelector", SelectorTimeoutMs))
    /\ opc' = "selecting"
    /\ UNCHANGED <<op, result, appeared, ncalls>>
    /\ UNCHANGED otherThanOps

\* exists: ... return true } catch (e) { return false }
ExistsSettle ==
    /\ op = "exists" /\ opc = "selecting"
    /\ \E a \in BOOLEAN :
         /\ appeared' = a
         /\ Deliver(IF a THEN "true" ELSE "false")
    /\ UNCHANGED <<op, events, ncalls>>
    /\ UNCHANGED otherThanOps

\* waitForSelector and waitAndClick: await this.page.waitForSelector(selector, { timeout: 5000 })
SelectorWait ==
    /\ op \in {"waitForSelector", "waitAndClick"} /\ opc = "act"
    /\ IF page.kind # "tab"
         THEN /\ Deliver("raised")
              /\ UNCHANGED events
         ELSE /\ events' = Append(events, Ev("page.waitForSelector", SelectorTimeoutMs))
              /\ opc' = "selecting"
              /\ UNCHANGED result
    /\ UNCHANGED <<op, appeared, ncalls>>
    /\ UNCHANGED otherThanOps

\* the selector wait of waitForSelector and waitAndClick resolves with the handle, or
\* rejects, which neither catches; waitAndClick goes on to this.page.evaluate(...)
SelectorSettle ==
    /\ op \in {"waitForSelector", "waitAndClick"} /\ opc = "selecting"
    /\ \E a \in BOOLEAN :
         /\ appeared' = a
         /\ IF ~a
              THEN Deliver("raised") /\ UNCHANGED events
              ELSE IF op = "waitForSelector"
                     THEN Deliver("handle") /\ UNCHANGED events
                     ELSE /\ events' = Append(events, Ev("page.evaluate", 0))
                          /\ opc' = "awaiting"
                          /\ UNCHANGED result
    /\ UNCHANGED <<op, ncalls>>
    /\ UNCHANGED otherThanOps

NextOps ==
    \/ OpCall
    \/ WaitForTimeoutStart
    \/ WaitForTimeoutSettle
    \/ Goto
    \/ Click
    \/ Type
    \/ AwaitSettle
    \/ ExistsWait
    \/ ExistsSettle
    \/ SelectorWait
    \/ SelectorSettle

(***************************************************************************)
(* readUserInput: a promise resolved by whichever of the timer callback    *)
(* and the question callback runs; the other still runs later.             *)
(***************************************************************************)
\* the user types at most MaxLine characters
MaxLine == 3

\* the keys: "a" matches /\w/, "-" does not
Keys == {"a", "-"}
IsWord(c) == c = "a"

InitInput ==
    /\ pstate = "none"
    /\ pvalue = <<>>
    /\ password = FALSE
    /\ line = <<>>
    /\ echoed = <<>>
    /\ rlOpen = FALSE
    /\ timerFired = FALSE
    /\ timeoutLogs = 0
    /\ first = "none"
    /\ answer = <<>>

\* Resolve with a fault: a later call overwrites the value
ResolveOverwrites(v) ==
    /\ pstate' = "resolved"
    /\ pvalue' = v

\* resolve(v) of new Promise<string>(resolve => ...): only the first call settles it
Resolve(v) ==
    IF pstate = "pending"
      THEN /\ pstate' = "resolved"
           /\ pvalue' = v
      ELSE UNCHANGED <<pstate, pvalue>>

\* readline._writeToOutput = s => readline.output.write(password && /\w/.test(s) ? "*" : s)
WriteToOutput(pw, c) == IF pw /\ IsWord(c) THEN "*" ELSE c

\* readUserInput(question, password, timeout): arms the timer, opens readline, asks
ReadUserInput ==
    /\ pstate = "none"
    /\ pstate' = "pending"
    /\ \E pw \in BOOLEAN : password' = pw
    /\ rlOpen' = TRUE
    /\ UNCHANGED <<pvalue, line, echoed, timerFired, timeoutLogs, first, answer>>
    /\ UNCHANGED otherThanInput

\* the user types a character; readline echoes it through _writeToOutput
KeyPress ==
    /\ rlOpen
    /\ Len(line) < MaxLine
    /\ \E c \in Keys :
         /\ line' = Append(line, c)
         /\ echoed' = Append(echoed, WriteToOutput(password, c))
    /\ UNCHANGED <<pstate, pvalue, password, rlOpen, timerFired, timeoutLogs, first, answer>>
    /\ UNCHANGED otherThanInput

\* the user ends the line: (answer) => { resolve(answer); readline.close() }
AnswerCallback ==
    /\ rlOpen
    /\ answer' = line
    /\ Resolve(line)
    /\ rlOpen' = FALSE
    /\ first' = IF first = "none" THEN "answer" ELSE first
    /\ UNCHANGED <<password, line, echoed, timerFired, timeoutLogs>>
    /\ UNCHANGED otherThanInput

\* setTimeout(_ => { console.log("timeout"); resolve("") }, timeout): never cleared
TimerCallback ==
    /\ pstate # "none"
    /\ ~timerFired
    /\ timerFired' = TRUE
    /\ timeoutLogs' = timeoutLogs + 1
    /\ Resolve(<<>>)
    /\ first' = IF first = "none" THEN "timer" ELSE first
    /\ UNCHANGED <<password, line, echoed, rlOpen, answer>>
    /\ UNCHANGED otherThanInput

NextInput ==
    \/ ReadUserInput
    \/ KeyPress
    \/ AnswerCallback
    \/ TimerCallback

(***************************************************************************)
(* waitForDownload, and the browser writing downloads into the staging     *)
(* directory.  A file name is the sequence of its dot-separated parts.     *)
(***************************************************************************)
\* downloads are numbered 1..MaxFiles
MaxFiles == 2
\* the timeout argument is one of -50, 0, 50, .. MaxTimeoutK * 50
MaxTimeoutK == 5
\* waitForDownload is invoked at most MaxDlCalls times
MaxDlCalls == 2
\* the polling interval
PollMs == 100

Partial(n) == <<n, "pdf", "crdownload">>
Complete(n) == <<n, "pdf">>
Timeouts == {50 * k : k \in -1..MaxTimeoutK}

\* downloadFile.endsWith('.' + suffix)
EndsWith(f, suffix) == Len(f) >= 2 /\ f[Len(f)] = suffix

\* a completed download: a file, and not a partial one
IsCompleted(f) == f # <<>> /\ ~EndsWith(f, "crdownload")

Range(q) == {q[i] : i \in 1..Len(q)}
InsertAt(q, i, x) == SubSeq(q, 1, i - 1) \o <<x>> \o SubSeq(q, i, Len(q))
Without(q, x) == SelectSeq(q, LAMBDA y : y # x)

InitDownload ==
    /\ staging = <<>>
    /\ dest = {}
    /\ destExists = FALSE
    /\ wpc = "idle"
    /\ timeout = 0
    /\ elapsed = 0
    /\ downloadFile = <<>>
    /\ reads = 0
    /\ stopMissed = FALSE
    /\ dlResult = <<>>
    /\ dlCalls = 0
    /\ copied = <<>>
    /\ browserDir = <<>>
    /\ retDir = <<>>
    /\ prevResult = <<>>
    /\ prevDir = <<>>

\* the browser starts download n: a partial file appears somewhere in the listing
DownloadStart ==
    /\ \E n \in 1..MaxFiles :
         /\ Partial(n) \notin Range(staging)
         /\ Complete(n) \notin Range(staging)
         /\ \E i \in 1..(Len(staging) + 1) : staging' = InsertAt(staging, i, Partial(n))
    /\ browserDir' = staging'
    /\ UNCHANGED <<dest, destExists, wpc, timeout, elapsed, downloadFile, reads, stopMissed,
                   dlResult, dlCalls, copied, retDir, prevResult, prevDir>>
    /\ UNCHANGED otherThanDownload

\* the browser completes download n: the partial file is renamed, and is listed anywhere
DownloadComplete ==
    /\ \E n \in 1..MaxFiles :
         /\ Partial(n) \in Range(staging)
         /\ \E i \in 1..Len(staging) :
              staging' = InsertAt(Without(staging, Partial(n)), i, Complete(n))
    /\ browserDir' = staging'
    /\ UNCHANGED <<dest, destExists, wpc, timeout, elapsed, downloadFile, reads, stopMissed,
                   dlResult, dlCalls, copied, retDir, prevResult, prevDir>>
    /\ UNCHANGED otherThanDownload

\* waitForDownload(timeout): let elapsed = 0; let downloadFile; do {
WaitForDownload ==
    /\ wpc \in {"idle", "done"}
    /\ dlCalls < MaxDlCalls
    /\ dlCalls' = dlCalls + 1
    /\ \E t \in Timeouts : timeout' = t
    /\ elapsed' = 0
    /\ downloadFile' = <<>>
    /\ reads' = 0
    /\ stopMissed' = FALSE
    /\ dlResult' = <<>>
    /\ copied' = <<>>
    /\ prevResult' = dlResult
    /\ prevDir' = retDir
    /\ wpc' = "sleep"
    /\ UNCHANGED <<staging, dest, destExists, browserDir, retDir>>
    /\ UNCHANGED otherThanDownload

\* fs.readdirSync(this.tmpDir)[0]: the first entry listed, undefined in an empty directory
FirstEntry(dir) == IF dir = <<>> THEN <<>> ELSE dir[1]

\* while (elapsed < timeout && (!downloadFile || downloadFile.endsWith('.crdownload')))
LoopContinues(e, f) == e < timeout /\ (f = <<>> \/ EndsWith(f, "crdownload"))

\* CopyFileSync with a fault: the file is moved, as the comment above the call says
RenameSync(dir, f) == Without(dir, f)

\* fs.copyFileSync(path.resolve(this.tmpDir, downloadFile), downloadPath): the staging
\* directory after it
CopyFileSync(dir, f) == dir

\* path.resolve(this.downloadDir, downloadFile)
DownloadPath(f) == <<"downloadDir">> \o f

\* one pass of the loop that goes round again: the 100 ms timer fires, elapsed += 100,
\* the directory is read, the condition holds
PollAgain ==
    /\ wpc = "sleep"
    /\ LoopContinues(elapsed + PollMs, FirstEntry(staging))
    /\ elapsed' = elapsed + PollMs
    /\ downloadFile' = FirstEntry(staging)
    /\ reads' = reads + 1
    /\ stopMissed' = (stopMissed \/ \E f \in Range(staging) : IsCompleted(f))
    /\ UNCHANGED <<staging, dest, destExists, wpc, timeout, dlResult, dlCalls, copied,
                   browserDir, retDir, prevResult, prevDir>>
    /\ UNCHANGED otherThanDownload

\* the last pass of the loop and, in the same turn, the rest of the function:
\* if (!downloadFile) return undefined; create the download directory; copy; return the path
PollLast ==
    /\ wpc = "sleep"
    /\ ~LoopContinues(elapsed + PollMs, FirstEntry(staging))
    /\ elapsed' = elapsed + PollMs
    /\ downloadFile' = FirstEntry(staging)
    /\ reads' = reads + 1
    /\ IF downloadFile' = <<>>
         THEN /\ dlResult' = <<>>
              /\ UNCHANGED <<staging, dest, destExists, copied>>
         ELSE /\ destExists' = TRUE
              /\ dest' = dest \cup {downloadFile'}
              /\ staging' = CopyFileSync(staging, downloadFile')
              /\ copied' = downloadFile'
              /\ dlResult' = DownloadPath(downloadFile')
    /\ retDir' = browserDir
    /\ wpc' = "done"
    /\ UNCHANGED <<timeout, stopMissed, dlCalls, browserDir, prevResult, prevDir>>
    /\ UNCHANGED otherThanDownload

NextDownload ==
    \/ DownloadStart
    \/ DownloadComplete
    \/ WaitForDownload
    \/ PollAgain
    \/ PollLast

(***************************************************************************)
(* The specifications.                                                     *)
(***************************************************************************)
\* the object as the constructor leaves it
Init ==
    /\ page = Uninit
    /\ InitRun
    /\ InitOps
    /\ InitInput
    /\ InitDownload

\* the object as an operation finds it: before run() assigned the tab, or with the tab
InitAnyPage ==
    /\ page \in {Uninit, Tab(1)}
    /\ errorDump = ""
    /\ InitRun
    /\ InitOps
    /\ InitInput
    /\ InitDownload

SpecRun == Init /\ [][NextRun]_vars

SpecOps == InitAnyPage /\ [][NextOps]_vars

\* the object constructed with debug = false
InitNoDebug ==
    /\ Init
    /\ errorDump = ""

SpecInput == InitNoDebug /\ [][NextInput]_vars

SpecDownload == InitNoDebug /\ [][NextDownload]_vars

\* the event loop runs a timer callback that is due
FairSpecDownload == SpecDownload /\ WF_vars(PollAgain \/ PollLast)

(***************************************************************************)
(* The properties of run().                                                *)
(***************************************************************************)
\* C1: whenever run() has returned or thrown after launching a browser, that browser
\* has been closed, whatever step of run() failed.
C1_BrowserClosedOnExit ==
    (rpc = "returned" /\ browser # "none") => browser = "closed"

\* C2: when crawl() raised E and a dump path is configured, then once run() has
\* finished the dump file holds the markup of the moment of failure and run() raised
\* exactly E, also when reading the markup or writing the file failed.
C2_DumpWrittenAndSameError ==
    (rpc = "returned" /\ failMarkup # -1 /\ errorDump # "")
        => (dumpFile = failMarkup /\ outcome = "CrawlError")

\* the errors of the browser library's calls between the launch and crawl()
LibraryRejections == {"PagesError", "TypeError", "SessionError", "SendError"}

\* C7: every run() whose browser launch succeeded (and whose calls to the browser did
\* not fail) created the staging directory and went on to call crawl(), also a run()
\* that follows an earlier completed run() against the same file system.
C7_EveryRunStagesAndCrawls ==
    (rpc = "returned" /\ browser # "none" /\ outcome \notin LibraryRejections)
        => (dirMade /\ crawlStarted)

\* C8: crawl() starts only after this.page holds the tab of this run's browser,
\* this.tmpDir is set and the directory created, and the download-redirect command of
\* this run has completed; an interaction inside crawl() sees that page and that path.
C8_CrawlAfterSetup ==
    crawlStarted =>
        /\ page = Tab(runs)
        /\ tmpDir = "temp"
        /\ fsTemp /\ dirMade
        /\ dlRedirect = runs
        /\ (crawlOps > 0 => (obsPage = Tab(runs) /\ obsTmp = "temp"))

\* C8's case: an interaction ran inside crawl()
C8_Witness ==
    rpc = "crawling" /\ crawlOps > 0 /\ obsPage.kind = "tab"

(***************************************************************************)
(* The properties of the pass-through operations.                          *)
(***************************************************************************)
\* C5: exists never raises: it delivers true when the selector appeared within the
\* wait and false otherwise, also when its pre-delay failed.
C5_ExistsNeverRaises ==
    (op = "exists" /\ opc = "done")
        => (result \in {"true", "false"} /\ (result = "true" <=> appeared))

\* a call the operation delegates to the page, other than the delay
Delegated(e) == e.call \notin {"page.waitForTimeout", "page.waitForTimeout.resolved"}

\* every delegated call made so far came after a completed 1-second delay
DelayCameFirst ==
    \A i \in 1..Len(events) :
        Delegated(events[i])
            => \E j \in 1..(i - 1) : events[j] = Ev("page.waitForTimeout.resolved", PreDelayMs)

\* no delay was asked of the page so far
NoDelay == \A i \in 1..Len(events) : Delegated(events[i])

\* C6 as stated: each of goto, click, type, exists, waitForSelector and waitAndClick
\* completes a fixed 1-second delay before its first delegated call to the page.
C6_AllSixDelayFirst ==
    op \in {"goto", "click", "type", "exists", "waitForSelector", "waitAndClick"}
        => DelayCameFirst

\* C6 as amended: click, type and exists complete a fixed 1-second delay before their
\* first delegated call to the page; goto, waitForSelector and waitAndClick make
\* theirs with no delay before it.
C6_ThreeDelayFirst ==
    /\ op \in {"click", "type", "exists"} => DelayCameFirst
    /\ op \in {"goto", "waitForSelector", "waitAndClick"} => NoDelay

\* C6's case: type made its delegated call, after its delay resolved
C6_Witness ==
    /\ op = "type"
    /\ opc = "awaiting"
    /\ events = <<Ev("page.waitForTimeout", PreDelayMs),
                  Ev("page.waitForTimeout.resolved", PreDelayMs), Ev("page.type", 0)>>

(***************************************************************************)
(* The property of readUserInput.                                          *)
(***************************************************************************)
\* C4: the promise is settled as soon as one callback ran, with the outcome of the
\* callback that ran first: the typed answer when that was the question callback, the
\* empty string when that was the timer; the later callback changes nothing.
C4_FirstEventWins ==
    /\ (pstate = "resolved") <=> (first # "none")
    /\ pstate = "resolved" => pvalue = (IF first = "answer" THEN answer ELSE <<>>)

\* C4's case: the user answered with text and the timer fired afterwards
C4_Witness ==
    /\ first = "answer"
    /\ answer # <<>>
    /\ timerFired
    /\ pvalue = answer

(***************************************************************************)
(* The properties of waitForDownload.                                      *)
(***************************************************************************)
\* C3: waitForDownload never selects a partial file: with no completed file in the
\* staging directory when it returns it delivers undefined and copies nothing, and
\* with a completed file among partial ones it delivers a completed one.
C3_NeverSelectsPartial ==
    wpc = "done" =>
        /\ ~EndsWith(dlResult, "crdownload")
        /\ (\A f \in Range(retDir) : ~IsCompleted(f)) => (dlResult = <<>> /\ copied = <<>>)
        /\ (\E f \in Range(retDir) : IsCompleted(f)) => (IsCompleted(copied) /\ dlResult = DownloadPath(copied))

\* max(1, ceil(t / 100))
MaxReads(t) == IF t <= PollMs THEN 1 ELSE (t + PollMs - 1) \div PollMs

\* the directory is read once per 100 ms step, at most max(1, ceil(timeout / 100))
\* times and, once the call is over, at least once
ReadsBounded ==
    /\ elapsed = reads * PollMs
    /\ wpc # "idle" => reads <= MaxReads(timeout)
    /\ wpc = "done" => reads >= 1

\* the loop ends before its last allowed read only on a read whose first entry is a
\* completed file
EarlyExitOnFirstEntry ==
    (wpc = "done" /\ reads < MaxReads(timeout)) => IsCompleted(downloadFile)

\* under FairSpecDownload every invocation returns
PollingTerminates ==
    /\ [](ReadsBounded /\ EarlyExitOnFirstEntry)
    /\ (wpc = "sleep") ~> (wpc = "done")

\* C9: the polling loop always terminates: for every timeout (0 and negative ones
\* too) and every history of the staging directory it reads the directory at least
\* once and at most max(1, ceil(timeout / 100)) times, one read per 100 ms step, and
\* it stops at the first read that finds a completed file.
C9_BoundedReadsStopAtCompleted ==
    /\ ReadsBounded
    /\ ~stopMissed

====
